---- MODULE Spec2Model ----
(***************************************************************************)
(* A state-machine model of the plotting package (RDoerfel/plotting).      *)
(*                                                                         *)
(* Two variants of the code live side by side in the repository:           *)
(*   core   : src/plotting/figures.py (FontManager, Plotting, Plot)        *)
(*   legacy : src/src/figures.py      (Plotting, Plot)                     *)
(* Operations of the legacy variant whose name clashes with a core name    *)
(* carry the prefix Legacy_.                                               *)
(*                                                                         *)
(* Floats are modelled exactly, as reduced fractions <<num, den>>.  Float  *)
(* inputs are given in hundredths (254 stands for 2.54).                   *)
(***************************************************************************)
EXTENDS Integers, Sequences, FiniteSets, TLC

VARIABLES
    fontDir,         \* the package's fonts directory on disk (FONTS_DIR)
    request,         \* the arguments the caller's script passes to figure creation
    fontsLoaded,     \* FontManager._fonts_loaded
    availableFonts,  \* FontManager._available_fonts
    engineFonts,     \* font files registered with the engine (addfont)
    warned,          \* whether the last operation emitted a warning
    plotting,        \* the core Plotting object: [exists, config]
    legacy,          \* whether the legacy Plotting object has been constructed
    rc,              \* the engine's global rcParams
    interactive,     \* the engine's interactive (auto-display) mode
    plot,            \* the Plot the caller holds: NoPlot or a figure record
    dirs,            \* directories that exist on disk
    files,           \* files written so far: set of <<directory, filename>>
    userConfig,      \* the PlottingConfig object the caller holds: [attrs, shadow]
    call             \* the last operation: its inputs and its outcome

vars == <<fontDir, request, fontsLoaded, availableFonts, engineFonts, warned, plotting, legacy,
          rc, interactive, plot, dirs, files, userConfig, call>>

fontVars == <<fontsLoaded, availableFonts, engineFonts>>

-----------------------------------------------------------------------------
(* Bounds of the model *)

MaxRows == 2
MaxCols == 2
MaxStyleRuns == 2

-----------------------------------------------------------------------------
(* Exact arithmetic on floats *)

Abs(n) == IF n < 0 THEN -n ELSE n

RECURSIVE Gcd(_, _)
Gcd(a, b) == IF b = 0 THEN a ELSE Gcd(b, a % b)

\* the fraction n/d (d > 0) in lowest terms
Rat(n, d) ==
    LET g == Gcd(Abs(n), d)
    IN  <<n \div g, d \div g>>

\* a float given in hundredths
Hundredths(h) == Rat(h, 100)

RatNeg(r) == r[1] < 0

\* CM = 2.54, in hundredths
CMx100 == 254

\* a conversion that multiplies by CM
DivCM_times(h) == Rat(h * CMx100, 10000)

\* value / CM for a value given in hundredths
DivCM(h) == Rat(h, CMx100)

-----------------------------------------------------------------------------
(* Python values *)

\* None
None == <<>>

\* a number n/d as a value; a string as a value (values of one rc key may be
\* a string or a number)
Num(n) == Rat(n, 1)
Str(s) == <<s>>

\* Python truthiness of an optional number or string: None, 0 and "" are falsy
Truthy(x) == x # None /\ x # Num(0) /\ x # Str("")

\* x or y
Or(x, y) == IF Truthy(x) THEN x ELSE y

\* dict.update: the entries of upd laid over d
DictUpdate(d, upd) ==
    [k \in DOMAIN d \cup DOMAIN upd |-> IF k \in DOMAIN upd THEN upd[k] ELSE d[k]]

EmptyDict == [k \in {} |-> None]

-----------------------------------------------------------------------------
(* The fonts directory *)

\* str.lower() of a file suffix
Lower(suffix) ==
    CASE suffix = ".TTF" -> ".ttf"
      [] suffix = ".WOFF2" -> ".woff2"
      [] OTHER -> suffix

ArialFile  == [stem |-> "Arial",  suffix |-> ".ttf",   family |-> "Arial",        ok |-> TRUE]
BrokenFile == [stem |-> "Broken", suffix |-> ".otf",   family |-> "Broken",       ok |-> FALSE]
FancyFile  == [stem |-> "fancy-regular", suffix |-> ".WOFF2", family |-> "Fancy", ok |-> TRUE]
NotesFile  == [stem |-> "notes",  suffix |-> ".txt",   family |-> "",             ok |-> FALSE]

MissingDir    == [exists |-> FALSE, readable |-> FALSE, entries |-> {}]
UnreadableDir == [exists |-> TRUE,  readable |-> FALSE, entries |-> {ArialFile}]
NoFontsDir    == [exists |-> TRUE,  readable |-> TRUE,  entries |-> {NotesFile}]
FullDir       == [exists |-> TRUE,  readable |-> TRUE,
                  entries |-> {ArialFile, BrokenFile, FancyFile, NotesFile}]

DirChoices == {MissingDir, UnreadableDir, NoFontsDir, FullDir}

\* the engine's own font list (fontManager.ttflist) before any addfont
SystemFonts == {"DejaVu Sans"}

\* names in fontManager.ttflist: the system fonts and the families of added files
TtfListNames(engine) == SystemFonts \cup {f.family : f \in engine}

-----------------------------------------------------------------------------
(* FontManager (core) *)

font_extensions == {".ttf", ".otf", ".woff", ".woff2"}

FontFilesIn(dir) == {f \in dir.entries : Lower(f.suffix) \in font_extensions}

\* a directory passed as the font_dir argument (None when left out)
Dir(d) == <<d>>

\* a load that does not look at the loaded flag
LoadFonts_reload(fm, font_dir, packageDir) ==
    LET dir == IF font_dir = None THEN packageDir ELSE font_dir[1]
        found == IF dir.exists /\ dir.readable THEN FontFilesIn(dir) ELSE {}
    IN  [loaded |-> TRUE,
         available |-> fm.available \cup {f.stem : f \in {g \in found : g.ok}},
         engine |-> fm.engine \cup {g \in found : g.ok},
         warned |-> found = {} \/ \E g \in found : ~g.ok]

\* a load that gives up on the whole directory when one file fails
LoadFonts_abort(fm, font_dir, packageDir) ==
    LET dir == IF font_dir = None THEN packageDir ELSE font_dir[1]
        found == IF dir.exists /\ dir.readable THEN FontFilesIn(dir) ELSE {}
        allOk == \A g \in found : g.ok
    IN  [loaded |-> TRUE,
         available |-> IF fm.loaded \/ ~allOk THEN fm.available
                       ELSE fm.available \cup {f.stem : f \in found},
         engine |-> IF fm.loaded \/ ~allOk THEN fm.engine ELSE fm.engine \cup found,
         warned |-> ~fm.loaded /\ (found = {} \/ ~allOk)]

\* FontManager.load_fonts(font_dir), as a function of the class state
\* fm = [loaded, available, engine]; the result adds warned
LoadFonts(fm, font_dir, packageDir) ==
    LET dir == IF font_dir = None THEN packageDir ELSE font_dir[1]
    IN  IF fm.loaded
        THEN [loaded |-> TRUE, available |-> fm.available, engine |-> fm.engine,
              warned |-> FALSE]
        ELSE IF ~dir.exists
        THEN [loaded |-> TRUE, available |-> fm.available, engine |-> fm.engine,
              warned |-> TRUE]
        ELSE IF ~dir.readable
        THEN \* iterdir raises: the outer except warns
             [loaded |-> TRUE, available |-> fm.available, engine |-> fm.engine,
              warned |-> TRUE]
        ELSE IF FontFilesIn(dir) = {}
        THEN [loaded |-> TRUE, available |-> fm.available, engine |-> fm.engine,
              warned |-> TRUE]
        ELSE [loaded |-> TRUE,
              available |-> fm.available \cup {f.stem : f \in {g \in FontFilesIn(dir) : g.ok}},
              engine |-> fm.engine \cup {g \in FontFilesIn(dir) : g.ok},
              warned |-> \E g \in FontFilesIn(dir) : ~g.ok]

\* a lookup that consults the custom-registered names only
IsFontAvailable_customOnly(fm, font_name, packageDir) ==
    LET after == LoadFonts(fm, None, packageDir)
    IN  [fm |-> [loaded |-> after.loaded, available |-> after.available,
                 engine |-> after.engine, warned |-> after.warned],
         result |-> font_name \in after.available]

\* FontManager.is_font_available(font_name): the class state after the call
\* and the value returned
IsFontAvailable(fm, font_name, packageDir) ==
    LET after == IF ~fm.loaded THEN LoadFonts(fm, None, packageDir)
                 ELSE [loaded |-> fm.loaded, available |-> fm.available,
                       engine |-> fm.engine, warned |-> FALSE]
    IN  [fm |-> after,
         result |-> font_name \in after.available
                    \/ font_name \in TtfListNames(after.engine)]

FontState == [loaded |-> fontsLoaded, available |-> availableFonts, engine |-> engineFonts]

-----------------------------------------------------------------------------
(* PlottingConfig *)

DEFAULT_CONFIG ==
    [default_font |-> "Arial",
     font_sizes |-> [small |-> Num(8), medium |-> Num(10), big |-> Num(12)],
     dpi |-> Num(300),
     default_width |-> Hundredths(1000), default_height |-> Hundredths(800),
     default_unit |-> "cm",
     spine_width |-> Hundredths(140),
     grid_color |-> "C7", grid_style |-> "--", grid_width |-> Hundredths(80),
     color_palette |-> "deep"]

MINIMAL_CONFIG ==
    [DEFAULT_CONFIG EXCEPT
        !.font_sizes = [small |-> Num(6), medium |-> Num(8), big |-> Num(10)],
        !.default_width = Hundredths(600), !.default_height = Hundredths(450)]

HIGH_RES_CONFIG ==
    [DEFAULT_CONFIG EXCEPT
        !.dpi = Num(600),
        !.font_sizes = [small |-> Num(10), medium |-> Num(12), big |-> Num(14)],
        !.default_width = Hundredths(1500), !.default_height = Hundredths(1200)]

Configs == {DEFAULT_CONFIG, MINIMAL_CONFIG, HIGH_RES_CONFIG}

\* the dataclass fields
Fields ==
    {"default_font", "font_sizes", "dpi", "default_width", "default_height", "default_unit",
     "spine_width", "grid_color", "grid_style", "grid_width", "color_palette"}

\* the attributes every PlottingConfig has from its class
ClassAttributes ==
    {"__post_init__", "from_dict", "from_json", "to_dict", "to_json", "update",
     "get_journal_preset", "__str__", "__repr__"}

\* the defaults of the fields as declared: font_sizes defaults to None
FieldDefaults == [DEFAULT_CONFIG EXCEPT !.font_sizes = None]

\* __post_init__: a font_sizes of None becomes the default scale
PostInit(attrs) ==
    IF attrs.font_sizes = None
    THEN [attrs EXCEPT !.font_sizes = [small |-> Num(8), medium |-> Num(10), big |-> Num(12)]]
    ELSE attrs

\* a PlottingConfig object: the values of its fields, and the class
\* attributes that an instance attribute of the same name hides
ConfigObject(attrs) == [attrs |-> attrs, shadow |-> {}]

NoConfig == [attrs |-> EmptyDict, shadow |-> {}]

-----------------------------------------------------------------------------
(* The engine's figure and axes objects *)

Sides == {"top", "right", "left", "bottom"}

\* a freshly created axes, with the engine's defaults
NewAxes ==
    [spines |-> [s \in Sides |->
                    [visible |-> TRUE,
                     position |-> <<"outward", Num(0)>>,
                     linewidth |-> Hundredths(80)]],
     grid  |-> [on |-> FALSE, axis |-> "both", color |-> "#b0b0b0",
                linestyle |-> "-", linewidth |-> Hundredths(80), alpha |-> Num(1)],
     major |-> [direction |-> "out", length |-> Hundredths(350),
                width |-> Hundredths(80), bottom |-> TRUE, left |-> TRUE],
     minor |-> [direction |-> "out", length |-> Hundredths(200),
                width |-> Hundredths(60), bottom |-> TRUE, left |-> TRUE]]

NoPlot == [variant |-> "none", figsize |-> <<>>, axes |-> <<>>,
           styleApplied |-> FALSE, styleRuns |-> 0]

\* Figure.__init__(figsize): the engine refuses a negative width or height
EngineAcceptsFigsize(figsize) == ~RatNeg(figsize[1]) /\ ~RatNeg(figsize[2])

\* Plot.__init__: an engine figure without axes, _style_applied = False.
\* styleRuns counts the runs of the style operation on this figure (history).
\* A legacy Plot has no _style_applied attribute: its styleApplied stays FALSE.
NewPlot(variant, figsize) ==
    [variant |-> variant, figsize |-> figsize, axes |-> <<>>,
     styleApplied |-> FALSE, styleRuns |-> 0]

\* plot.add_subplot(1, 1, 1)
AddSubplot(fig) == [fig EXCEPT !.axes = Append(fig.axes, NewAxes)]

\* a grid that forgets its columns
Subplots_rowsOnly(fig, rows, cols) ==
    [fig EXCEPT !.axes = fig.axes \o [i \in 1..rows |-> NewAxes]]

\* plot.subplots(nrows, ncols): rows*cols new axes in the figure
Subplots(fig, rows, cols) ==
    [fig EXCEPT !.axes = fig.axes \o [i \in 1..(rows * cols) |-> NewAxes]]

\* GridSpec refuses a row or column count that is not positive
EngineAcceptsGrid(rows, cols) == rows > 0 /\ cols > 0

\* what plot.subplots returns (squeeze=True): one axes for 1 x 1, a
\* one-dimensional array when one of rows, cols is 1, else a rows x cols array
SqueezedShape(rows, cols) ==
    IF rows = 1 /\ cols = 1 THEN [kind |-> "axes", dims |-> <<>>]
    ELSE IF rows = 1 THEN [kind |-> "array", dims |-> <<cols>>]
    ELSE IF cols = 1 THEN [kind |-> "array", dims |-> <<rows>>]
    ELSE [kind |-> "array", dims |-> <<rows, cols>>]

-----------------------------------------------------------------------------
(* Outcomes of an operation *)

NoErr == [type |-> "none", msg |-> ""]
InvalidUnitCore   == [type |-> "ValueError", msg |-> "Unit must be 'cm' or 'inch'"]
InvalidUnitLegacy == [type |-> "ValueError", msg |-> "unit not supported"]
EngineFigsizeErr  == [type |-> "ValueError", msg |-> "figure size must be positive finite"]
EngineGridErr     == [type |-> "ValueError", msg |-> "Number of rows/columns must be a positive integer"]
EngineLayoutErr   == [type |-> "EngineError", msg |-> "tight_layout failed"]
EngineFontErr     == [type |-> "EngineError", msg |-> "addfont failed"]
DuplicateKwErr    == [type |-> "TypeError", msg |-> "got multiple values for keyword argument"]
IOFailure         == [type |-> "OSError", msg |-> "cannot write"]

UnknownParameter   == [type |-> "ValueError", msg |-> "Unknown configuration parameter"]
UnknownPreset      == [type |-> "ValueError", msg |-> "Journal not available"]
UnexpectedKwErr    == [type |-> "TypeError", msg |-> "got an unexpected keyword argument"]
NotCallableErr     == [type |-> "TypeError", msg |-> "object is not callable"]

NoCall == [op |-> "none", err |-> NoErr, args |-> None, out |-> None]

-----------------------------------------------------------------------------
(* PlottingConfig: construction, serialization, update, presets *)

\* PlottingConfig(**kwargs): the generated __init__, then __post_init__
NewConfig(kwargs) ==
    IF ~(DOMAIN kwargs \subseteq Fields)
    THEN [err |-> UnexpectedKwErr, obj |-> NoConfig]
    ELSE [err |-> NoErr,
          obj |-> ConfigObject(PostInit(
                      [k \in Fields |-> IF k \in DOMAIN kwargs THEN kwargs[k]
                                        ELSE FieldDefaults[k]]))]

\* PlottingConfig.from_dict(config_dict): cls(**config_dict)
FromDict(config_dict) == NewConfig(config_dict)

\* a to_dict that leaves the dpi out
ToDict_noDpi(obj) ==
    [k \in Fields \ {"dpi"} |-> obj.attrs[k]]

\* PlottingConfig.to_dict()
ToDict(obj) ==
    [default_font   |-> obj.attrs.default_font,
     font_sizes     |-> obj.attrs.font_sizes,
     dpi            |-> obj.attrs.dpi,
     default_width  |-> obj.attrs.default_width,
     default_height |-> obj.attrs.default_height,
     default_unit   |-> obj.attrs.default_unit,
     spine_width    |-> obj.attrs.spine_width,
     grid_color     |-> obj.attrs.grid_color,
     grid_style     |-> obj.attrs.grid_style,
     grid_width     |-> obj.attrs.grid_width,
     color_palette  |-> obj.attrs.color_palette]

\* hasattr(self, key): a field, or anything the class defines
HasAttr(obj, key) == key \in DOMAIN obj.attrs \/ key \in ClassAttributes

\* setattr(self, key, value): a field takes the value; any other name becomes
\* an instance attribute that hides the class attribute of that name
SetAttr(obj, key, value) ==
    IF key \in DOMAIN obj.attrs
    THEN [obj EXCEPT !.attrs[key] = value]
    ELSE [obj EXCEPT !.shadow = @ \cup {key}]

\* the loop of PlottingConfig.update over kwargs (a sequence of <<key, value>>
\* in the order given), from position i
RECURSIVE UpdateFrom(_, _, _)
UpdateFrom(obj, kwargs, i) ==
    IF i > Len(kwargs) THEN [err |-> NoErr, obj |-> obj]
    ELSE IF HasAttr(obj, kwargs[i][1])
    THEN UpdateFrom(SetAttr(obj, kwargs[i][1], kwargs[i][2]), kwargs, i + 1)
    ELSE [err |-> UnknownParameter, obj |-> obj]

\* PlottingConfig.update(**kwargs)
Update(obj, kwargs) == UpdateFrom(obj, kwargs, 1)

\* the preset table of get_journal_preset
Presets ==
    [nature   |-> [default_font |-> "Arial",
                   font_sizes |-> [small |-> Num(7), medium |-> Num(8), big |-> Num(9)],
                   default_width |-> Hundredths(830), default_height |-> Hundredths(600),
                   spine_width |-> Hundredths(100)],
     science  |-> [default_font |-> "Arial",
                   font_sizes |-> [small |-> Num(7), medium |-> Num(8), big |-> Num(9)],
                   default_width |-> Hundredths(850), default_height |-> Hundredths(650),
                   spine_width |-> Hundredths(120)],
     cell     |-> [default_font |-> "Arial",
                   font_sizes |-> [small |-> Num(8), medium |-> Num(9), big |-> Num(10)],
                   default_width |-> Hundredths(1780), default_height |-> Hundredths(1200),
                   spine_width |-> Hundredths(140)],
     plos_one |-> [default_font |-> "Arial",
                   font_sizes |-> [small |-> Num(8), medium |-> Num(10), big |-> Num(12)],
                   default_width |-> Hundredths(1740), default_height |-> Hundredths(1200),
                   spine_width |-> Hundredths(150)]]

\* journal.lower()
JournalLower(journal) ==
    CASE journal = "Nature" -> "nature"
      [] journal = "CELL"   -> "cell"
      [] OTHER -> journal

\* a preset lookup in which the current record's values win over the preset's
GetJournalPreset_currentWins(obj, journal) ==
    IF JournalLower(journal) \notin DOMAIN Presets
    THEN [err |-> UnknownPreset, obj |-> NoConfig]
    ELSE FromDict(DictUpdate(Presets[JournalLower(journal)], ToDict(obj)))

\* PlottingConfig.get_journal_preset(journal)
GetJournalPreset(obj, journal) ==
    IF JournalLower(journal) \notin DOMAIN Presets
    THEN [err |-> UnknownPreset, obj |-> NoConfig]
    ELSE FromDict(DictUpdate(ToDict(obj), Presets[JournalLower(journal)]))

-----------------------------------------------------------------------------
(* The style operation *)

DefaultStyle ==
    [despine |-> TRUE, grid |-> TRUE,
     offset_left |-> Num(5), offset_bottom |-> Num(5),
     spine_width |-> Hundredths(140),
     grid_color |-> "C7", grid_style |-> "--", grid_width |-> Hundredths(80)]

CustomStyle ==
    [despine |-> TRUE, grid |-> TRUE,
     offset_left |-> Num(10), offset_bottom |-> Num(0),
     spine_width |-> Hundredths(150),
     grid_color |-> "k", grid_style |-> ":", grid_width |-> Hundredths(50)]

\* the parameter sets a caller passes to apply_style
StyleChoices ==
    {DefaultStyle, CustomStyle,
     [DefaultStyle EXCEPT !.despine = FALSE],
     [DefaultStyle EXCEPT !.grid = FALSE],
     [CustomStyle EXCEPT !.despine = FALSE, !.grid = FALSE]}

\* the parameter sets a caller passes to the legacy set_style(offleft, offbottom, spinewidth)
LegacyStyleChoices ==
    {[offleft |-> Num(5),  offbottom |-> Num(5), spinewidth |-> Hundredths(140)],
     [offleft |-> Num(10), offbottom |-> Num(0), spinewidth |-> Hundredths(150)]}

\* half of a width (spine_width / 2)
Half(r) == Rat(r[1], 2 * r[2])

\* a despine that flips the visibility of the top and right spines
DespineAxes_toggle(ax, offL, offB) ==
    [ax EXCEPT
        !.spines["top"].visible = ~ax.spines["top"].visible,
        !.spines["right"].visible = ~ax.spines["right"].visible,
        !.spines["left"].visible = TRUE,
        !.spines["left"].position = <<"outward", offL>>,
        !.spines["bottom"].visible = TRUE,
        !.spines["bottom"].position = <<"outward", offB>>]

\* a despine that gives the left spine the bottom offset and the bottom
\* spine the left offset
DespineAxes_swapped(ax, offL, offB) ==
    [ax EXCEPT
        !.spines["top"].visible = FALSE,
        !.spines["right"].visible = FALSE,
        !.spines["left"].visible = TRUE,
        !.spines["left"].position = <<"outward", offB>>,
        !.spines["bottom"].visible = TRUE,
        !.spines["bottom"].position = <<"outward", offL>>]

\* sns.despine(fig, top=True, right=True, left=False, bottom=False,
\*             offset={"left": offL, "bottom": offB}) on one axes:
\* a side named True is hidden; a side left visible is moved outward by its offset
DespineAxes(ax, offL, offB) ==
    [ax EXCEPT
        !.spines["top"].visible = FALSE,
        !.spines["right"].visible = FALSE,
        !.spines["left"].visible = TRUE,
        !.spines["left"].position = <<"outward", offL>>,
        !.spines["bottom"].visible = TRUE,
        !.spines["bottom"].position = <<"outward", offB>>]

\* ax.grid(axis="y", color, linestyle, linewidth, alpha)
GridAxes(ax, color, style, width, alpha) ==
    [ax EXCEPT !.grid = [on |-> TRUE, axis |-> "y", color |-> color,
                         linestyle |-> style, linewidth |-> width, alpha |-> alpha]]

\* the two ax.tick_params calls
TickAxes(ax, spine_width) ==
    [ax EXCEPT
        !.major = [direction |-> "out", length |-> Num(3), width |-> spine_width,
                   bottom |-> TRUE, left |-> TRUE],
        !.minor = [direction |-> "out", length |-> Num(2), width |-> Half(spine_width),
                   bottom |-> TRUE, left |-> TRUE]]

\* spine.set_linewidth(spine_width) for every spine of the axes
SpineWidthAxes(ax, spine_width) ==
    [ax EXCEPT !.spines = [s \in Sides |-> [ax.spines[s] EXCEPT !.linewidth = spine_width]]]

\* the per-axes part of Plot.apply_style
StyleAxes(ax, p) ==
    LET a1 == IF p.despine THEN DespineAxes(ax, p.offset_left, p.offset_bottom) ELSE ax
        a2 == IF p.grid
              THEN GridAxes(a1, p.grid_color, p.grid_style, p.grid_width, Hundredths(70))
              ELSE a1
        a3 == TickAxes(a2, p.spine_width)
    IN  SpineWidthAxes(a3, p.spine_width)

\* the per-axes part of the legacy Plot.set_style: the grid keeps its alpha
LegacyStyleAxes(ax, p) ==
    LET a1 == DespineAxes(ax, p.offleft, p.offbottom)
        a2 == GridAxes(a1, "C7", "--", Hundredths(80), a1.grid.alpha)
        a3 == TickAxes(a2, p.spinewidth)
    IN  SpineWidthAxes(a3, p.spinewidth)

\* a figure of zero width or height: whether the engine's layout pass
\* succeeds on it is not decided by this code
Degenerate(fig) == fig.figsize[1][1] = 0 \/ fig.figsize[2][1] = 0

LayoutOutcomes(fig) == IF Degenerate(fig) THEN {TRUE, FALSE} ELSE {TRUE}

\* Plot.apply_style(**p): the figure afterwards.  layoutOk is whether
\* self.tight_layout() returns; when it raises, the flag is not set.
ApplyStyle(fig, p, layoutOk) ==
    [fig EXCEPT
        !.axes = [i \in DOMAIN fig.axes |-> StyleAxes(fig.axes[i], p)],
        !.styleApplied = IF layoutOk THEN TRUE ELSE fig.styleApplied,
        !.styleRuns = fig.styleRuns + 1]

\* Plot.set_style(offleft, offbottom, spinewidth) (legacy): no flag to set
SetStyle(fig, p) ==
    [fig EXCEPT
        !.axes = [i \in DOMAIN fig.axes |-> LegacyStyleAxes(fig.axes[i], p)],
        !.styleRuns = fig.styleRuns + 1]

-----------------------------------------------------------------------------
(* Inputs *)

RowChoices == -1..MaxRows
ColChoices == -1..MaxCols
\* widths and heights, in hundredths of the unit
WidthChoices  == {-500, 0, 254, 1000}
HeightChoices == {-500, 0, 254}
UnitChoices   == {"cm", "inch", "mm"}

-----------------------------------------------------------------------------
(* Initial state: the modules are imported, nothing is constructed *)

RcDefault ==
    [k \in {"font.family", "font.size", "axes.titlesize", "axes.labelsize",
            "xtick.labelsize", "ytick.labelsize", "legend.fontsize",
            "savefig.dpi", "figure.dpi", "pdf.fonttype", "ps.fonttype",
            "lines.linewidth"} |->
        CASE k = "font.family"     -> Str("sans-serif")
          [] k = "font.size"       -> Num(10)
          [] k = "axes.titlesize"  -> Str("large")
          [] k = "axes.labelsize"  -> Str("medium")
          [] k = "xtick.labelsize" -> Str("medium")
          [] k = "ytick.labelsize" -> Str("medium")
          [] k = "legend.fontsize" -> Str("medium")
          [] k = "savefig.dpi"     -> Str("figure")
          [] k = "figure.dpi"      -> Num(100)
          [] k = "pdf.fonttype"    -> Num(3)
          [] k = "ps.fonttype"     -> Num(3)
          [] k = "lines.linewidth" -> Hundredths(150)]

NoPlotting == [exists |-> FALSE, config |-> None]

CreateArgs(rows, cols, width, height, unit, squeeze) ==
    [rows |-> rows, cols |-> cols, width |-> width, height |-> height,
     unit |-> unit, squeeze |-> squeeze]

\* every argument list of a creation call
RequestChoices ==
    {CreateArgs(rows, cols, width, height, unit, squeeze) :
        rows \in RowChoices, cols \in ColChoices, width \in WidthChoices,
        height \in HeightChoices, unit \in UnitChoices, squeeze \in BOOLEAN}

\* the import-time state of everything but the directory and the script
ImportState ==
    /\ fontsLoaded = FALSE
    /\ availableFonts = {}
    /\ engineFonts = {}
    /\ warned = FALSE
    /\ plotting = NoPlotting
    /\ legacy = FALSE
    /\ rc = RcDefault
    /\ interactive = FALSE
    /\ plot = NoPlot
    /\ dirs = {"cwd"}
    /\ files = {}
    /\ userConfig = ConfigObject(DEFAULT_CONFIG)
    /\ call = NoCall

Init ==
    /\ fontDir \in DirChoices
    /\ request \in RequestChoices
    /\ ImportState

-----------------------------------------------------------------------------
(* Constructors *)

\* Plotting.__init__(config) (core): keeps the configuration, loads the fonts.
\* The script constructs its Plotting object once.
Plotting_init(config) ==
    LET fm == LoadFonts(FontState, None, fontDir)
    IN  /\ ~plotting.exists
        /\ plotting' = [exists |-> TRUE, config |-> IF config = None THEN DEFAULT_CONFIG ELSE config]
        /\ fontsLoaded' = fm.loaded
        /\ availableFonts' = fm.available
        /\ engineFonts' = fm.engine
        /\ warned' = fm.warned
        /\ call' = [op |-> "Plotting_init", err |-> NoErr, args |-> config, out |-> None]
        /\ UNCHANGED <<fontDir, request, userConfig, legacy, rc, interactive, plot, dirs, files>>

\* the files findSystemFonts finds in a directory: .ttf, .otf and .ttc files
SystemFontFilesIn(dir) ==
    IF dir.exists /\ dir.readable
    THEN {f \in dir.entries : Lower(f.suffix) \in {".ttf", ".otf", ".ttc"}}
    ELSE {}

\* Plotting._add_font (legacy): registers every font file found; a file the
\* engine cannot read raises
add_font(engine, dir) ==
    LET found == SystemFontFilesIn(dir)
    IN  [engine |-> engine \cup {f \in found : f.ok},
         err |-> IF \E f \in found : ~f.ok THEN EngineFontErr ELSE NoErr]

\* Plotting.__init__ (legacy)
Legacy_Plotting_init ==
    LET r == add_font(engineFonts, fontDir)
    IN  /\ ~legacy
        /\ engineFonts' = r.engine
        /\ legacy' = IF r.err = NoErr THEN TRUE ELSE legacy
        /\ warned' = FALSE
        /\ call' = [op |-> "Legacy_Plotting_init", err |-> r.err, args |-> None, out |-> None]
        /\ UNCHANGED <<fontDir, request, userConfig, fontsLoaded, availableFonts, plotting, rc, interactive,
                       plot, dirs, files>>

\* Plot(figsize) constructed by the caller directly: a figure without axes
Plot_init(variant) ==
    /\ plot = NoPlot
    /\ plot' = NewPlot(variant, <<Hundredths(640), Hundredths(480)>>)
    /\ warned' = FALSE
    /\ call' = [op |-> "Plot_init", err |-> NoErr, args |-> variant, out |-> None]
    /\ UNCHANGED <<fontDir, request, userConfig, fontVars, plotting, legacy, rc, interactive, dirs, files>>

-----------------------------------------------------------------------------
(* The caller and the engine's interactive mode *)

\* plt.ion()
ion ==
    /\ interactive' = TRUE
    /\ warned' = FALSE
    /\ call' = [op |-> "ion", err |-> NoErr, args |-> None, out |-> None]
    /\ UNCHANGED <<fontDir, request, userConfig, fontVars, plotting, legacy, rc, plot, dirs, files>>

\* plt.ioff()
ioff ==
    /\ interactive' = FALSE
    /\ warned' = FALSE
    /\ call' = [op |-> "ioff", err |-> NoErr, args |-> None, out |-> None]
    /\ UNCHANGED <<fontDir, request, userConfig, fontVars, plotting, legacy, rc, plot, dirs, files>>

\* the caller drops the figure it holds
discard ==
    /\ plot # NoPlot
    /\ plot' = NoPlot
    /\ warned' = FALSE
    /\ call' = [op |-> "discard", err |-> NoErr, args |-> None, out |-> None]
    /\ UNCHANGED <<fontDir, request, userConfig, fontVars, plotting, legacy, rc, interactive, dirs, files>>

-----------------------------------------------------------------------------
(* Figure creation *)

\* the outcome of a creation call: the error, whether Plot(...) was
\* constructed, the figsize handed to the engine, the figure and the shape of
\* the second return value
Created(err, constructed, handed, fig, ret) ==
    [err |-> err, constructed |-> constructed, handed |-> handed, fig |-> fig, ret |-> ret]

NoShape == [kind |-> "none", dims |-> <<>>]

\* Plotting.create_figure(rows, cols, width, height, unit, squeeze=...) (core)
CreateFigure(rows, cols, width, height, unit, squeeze) ==
    IF unit \notin {"cm", "inch"}
    THEN Created(InvalidUnitCore, FALSE, None, NoPlot, NoShape)
    ELSE
      LET figsize == IF unit = "cm" THEN <<DivCM(width), DivCM(height)>>
                     ELSE <<Hundredths(width), Hundredths(height)>>
      IN  IF ~EngineAcceptsFigsize(figsize)
          THEN Created(EngineFigsizeErr, FALSE, figsize, NoPlot, NoShape)
          ELSE IF rows = 1 /\ cols = 1
          THEN Created(NoErr, TRUE, figsize, AddSubplot(NewPlot("core", figsize)),
                       [kind |-> "axes", dims |-> <<>>])
          ELSE IF ~EngineAcceptsGrid(rows, cols)
          THEN Created(EngineGridErr, TRUE, figsize, NoPlot, NoShape)
          ELSE Created(NoErr, TRUE, figsize, Subplots(NewPlot("core", figsize), rows, cols),
                       IF squeeze THEN SqueezedShape(rows, cols)
                       ELSE [kind |-> "array", dims |-> <<rows, cols>>])

\* Plotting.get_figures(rows, cols, unit, figwidth, figheight) (legacy)
GetFigures(rows, cols, unit, figwidth, figheight) ==
    IF unit \notin {"cm", "inch"}
    THEN Created(InvalidUnitLegacy, FALSE, None, NoPlot, NoShape)
    ELSE
      LET figsize == IF unit = "cm" THEN <<DivCM(figwidth), DivCM(figheight)>>
                     ELSE <<Hundredths(figwidth), Hundredths(figheight)>>
      IN  IF ~EngineAcceptsFigsize(figsize)
          THEN Created(EngineFigsizeErr, FALSE, figsize, NoPlot, NoShape)
          ELSE IF ~EngineAcceptsGrid(rows, cols)
          THEN Created(EngineGridErr, TRUE, figsize, NoPlot, NoShape)
          ELSE Created(NoErr, TRUE, figsize, Subplots(NewPlot("legacy", figsize), rows, cols),
                       SqueezedShape(rows, cols))

\* the caller's script calls create_figure with its arguments
create_figure ==
    LET r == CreateFigure(request.rows, request.cols, request.width, request.height,
                          request.unit, request.squeeze)
    IN  /\ plotting.exists
        /\ plot = NoPlot
        /\ plot' = r.fig
        /\ warned' = FALSE
        /\ call' = [op |-> "create_figure", err |-> r.err,
                    args |-> request,
                    out |-> [constructed |-> r.constructed, handed |-> r.handed, ret |-> r.ret]]
        /\ UNCHANGED <<fontDir, request, userConfig, fontVars, plotting, legacy, rc, interactive, dirs, files>>

\* the caller's script calls get_figures with its arguments (there is no squeeze)
get_figures ==
    LET r == GetFigures(request.rows, request.cols, request.unit, request.width,
                        request.height)
    IN  /\ legacy
        /\ plot = NoPlot
        /\ plot' = r.fig
        /\ warned' = FALSE
        /\ call' = [op |-> "get_figures", err |-> r.err,
                    args |-> request,
                    out |-> [constructed |-> r.constructed, handed |-> r.handed, ret |-> r.ret]]
        /\ UNCHANGED <<fontDir, request, userConfig, fontVars, plotting, legacy, rc, interactive, dirs, files>>

-----------------------------------------------------------------------------
(* Styling a figure *)

\* Plot.apply_style(**p) called by the caller (core)
apply_style(p) ==
    /\ plot.variant = "core"
    /\ plot.styleRuns < MaxStyleRuns
    /\ \E layoutOk \in LayoutOutcomes(plot) :
        /\ plot' = ApplyStyle(plot, p, layoutOk)
        /\ call' = [op |-> "apply_style",
                    err |-> IF layoutOk THEN NoErr ELSE EngineLayoutErr,
                    args |-> p,
                    out |-> [flagBefore |-> plot.styleApplied, runsBefore |-> plot.styleRuns,
                             repeat |-> call.op = "apply_style" /\ call.args = p]]
    /\ warned' = FALSE
    /\ UNCHANGED <<fontDir, request, userConfig, fontVars, plotting, legacy, rc, interactive, dirs, files>>

\* Plot.set_style(offleft, offbottom, spinewidth) called by the caller (legacy)
set_style(p) ==
    /\ plot.variant = "legacy"
    /\ plot.styleRuns < MaxStyleRuns
    /\ \E layoutOk \in LayoutOutcomes(plot) :
        /\ plot' = SetStyle(plot, p)
        /\ call' = [op |-> "set_style",
                    err |-> IF layoutOk THEN NoErr ELSE EngineLayoutErr,
                    args |-> p,
                    out |-> [flagBefore |-> plot.styleApplied, runsBefore |-> plot.styleRuns,
                             repeat |-> call.op = "set_style" /\ call.args = p]]
    /\ warned' = FALSE
    /\ UNCHANGED <<fontDir, request, userConfig, fontVars, plotting, legacy, rc, interactive, dirs, files>>

\* Plot.show_style_preview() (core)
show_style_preview ==
    /\ plot.variant = "core"
    /\ \/ /\ plot.axes = <<>>
          /\ plot' = plot
          /\ call' = [op |-> "show_style_preview", err |-> NoErr, args |-> None,
                      out |-> [flagBefore |-> plot.styleApplied, runsBefore |-> plot.styleRuns]]
       \/ /\ plot.axes # <<>>
          /\ plot.styleApplied
          /\ plot' = plot
          /\ call' = [op |-> "show_style_preview", err |-> NoErr, args |-> None,
                      out |-> [flagBefore |-> plot.styleApplied, runsBefore |-> plot.styleRuns]]
       \/ /\ plot.axes # <<>>
          /\ ~plot.styleApplied
          /\ plot.styleRuns < MaxStyleRuns
          /\ \E layoutOk \in LayoutOutcomes(plot) :
              \* the style is applied for the preview, then the flag is put back
              /\ plot' = [ApplyStyle(plot, DefaultStyle, layoutOk) EXCEPT !.styleApplied = FALSE]
              /\ call' = [op |-> "show_style_preview",
                          err |-> IF layoutOk THEN NoErr ELSE EngineLayoutErr, args |-> None,
                          out |-> [flagBefore |-> plot.styleApplied,
                                   runsBefore |-> plot.styleRuns]]
    /\ warned' = FALSE
    /\ UNCHANGED <<fontDir, request, userConfig, fontVars, plotting, legacy, rc, interactive, dirs, files>>

-----------------------------------------------------------------------------
(* Saving a figure *)

FilenameChoices == {"test.pdf"}
\* path: None (the current directory) or a directory
PathChoices == {None, Str("out")}

\* keyword arguments a caller passes on to savefig
SaveOverrides ==
    {EmptyDict,
     [k \in {"dpi"} |-> Num(600)],
     [k \in {"facecolor", "format"} |-> IF k = "facecolor" THEN Str("black") ELSE Str("png")]}

\* what the disk does: the write succeeds, mkdir fails, or savefig fails
IoChoices == {"ok", "mkdir_fails", "savefig_fails"}

\* the default save parameters of the core Plot.save
DefaultSaveParams ==
    [k \in {"bbox_inches", "dpi", "facecolor", "edgecolor"} |->
        CASE k = "bbox_inches" -> Str("tight")
          [] k = "dpi"         -> Num(300)
          [] k = "facecolor"   -> Str("white")
          [] k = "edgecolor"   -> Str("none")]

\* save_params = {...}; save_params.update(kwargs)
SaveParams(kwargs) == DictUpdate(DefaultSaveParams, kwargs)

\* a save that ignores ensure_style
SaveAppliesStyle_always(fig, ensure_style) == ~fig.styleApplied

\* whether Plot.save runs the style operation first
SaveAppliesStyle(fig, ensure_style) == ensure_style /\ ~fig.styleApplied

ResolveDir(path) == IF path = None THEN "cwd" ELSE path[1]

SaveOut(fig, written, params) ==
    [flagBefore |-> fig.styleApplied, runsBefore |-> fig.styleRuns,
     written |-> written, params |-> params]

\* Plot.save(filename, path, ensure_style, **kwargs) (core)
save(filename, path, ensure_style, kwargs) ==
    LET args == [filename |-> filename, path |-> path, ensure_style |-> ensure_style,
                 kwargs |-> kwargs]
        dir == ResolveDir(path)
    IN
    /\ plot.variant = "core"
    /\ SaveAppliesStyle(plot, ensure_style) => plot.styleRuns < MaxStyleRuns
    /\ \E layoutOk \in (IF SaveAppliesStyle(plot, ensure_style)
                          THEN LayoutOutcomes(plot) ELSE {TRUE}),
          io \in IoChoices :
        LET styled == IF SaveAppliesStyle(plot, ensure_style)
                      THEN ApplyStyle(plot, DefaultStyle, layoutOk)
                      ELSE plot
        IN  /\ plot' = styled
            /\ IF SaveAppliesStyle(plot, ensure_style) /\ ~layoutOk
               THEN /\ call' = [op |-> "save", err |-> EngineLayoutErr, args |-> args,
                                out |-> SaveOut(plot, FALSE, None)]
                    /\ UNCHANGED <<dirs, files>>
               ELSE IF io = "mkdir_fails"
               THEN /\ call' = [op |-> "save", err |-> IOFailure, args |-> args,
                                out |-> SaveOut(plot, FALSE, None)]
                    /\ UNCHANGED <<dirs, files>>
               ELSE IF io = "savefig_fails"
               THEN /\ call' = [op |-> "save", err |-> IOFailure, args |-> args,
                                out |-> SaveOut(plot, FALSE, None)]
                    /\ dirs' = dirs \cup {dir}
                    /\ UNCHANGED files
               ELSE /\ call' = [op |-> "save", err |-> NoErr, args |-> args,
                                out |-> SaveOut(plot, TRUE, SaveParams(kwargs))]
                    /\ dirs' = dirs \cup {dir}
                    /\ files' = files \cup {<<dir, filename>>}
    /\ warned' = FALSE
    /\ UNCHANGED <<fontDir, request, userConfig, fontVars, plotting, legacy, rc, interactive>>

\* the keywords the legacy save passes itself: bbox_inches='tight', dpi=300
LegacySaveParams ==
    [k \in {"bbox_inches", "dpi"} |-> IF k = "bbox_inches" THEN Str("tight") ELSE Num(300)]

\* Plot.save(filename, path, **kwargs) (legacy): a keyword given twice is a
\* TypeError; the directory is not created
Legacy_save(filename, path, kwargs) ==
    LET args == [filename |-> filename, path |-> path, ensure_style |-> FALSE,
                 kwargs |-> kwargs]
        dir == ResolveDir(path)
    IN
    /\ plot.variant = "legacy"
    /\ \E io \in IoChoices \ {"mkdir_fails"} :
        IF DOMAIN kwargs \cap DOMAIN LegacySaveParams # {}
        THEN /\ call' = [op |-> "Legacy_save", err |-> DuplicateKwErr, args |-> args,
                         out |-> SaveOut(plot, FALSE, None)]
             /\ UNCHANGED files
        ELSE IF dir \notin dirs \/ io = "savefig_fails"
        THEN /\ call' = [op |-> "Legacy_save", err |-> IOFailure, args |-> args,
                         out |-> SaveOut(plot, FALSE, None)]
             /\ UNCHANGED files
        ELSE /\ call' = [op |-> "Legacy_save", err |-> NoErr, args |-> args,
                         out |-> SaveOut(plot, TRUE, DictUpdate(LegacySaveParams, kwargs))]
             /\ files' = files \cup {<<dir, filename>>}
    /\ warned' = FALSE
    /\ UNCHANGED <<fontDir, request, userConfig, fontVars, plotting, legacy, rc, interactive, plot, dirs>>

-----------------------------------------------------------------------------
(* Specifications *)

\* figure creation and the engine's interactive mode
NextCreate ==
    \/ Plotting_init(None)
    \/ Legacy_Plotting_init
    \/ ion
    \/ ioff
    \/ discard
    \/ create_figure
    \/ get_figures

SpecCreate == Init /\ [][NextCreate]_vars

\* styling and saving the figures that creation returns
NextStyle ==
    \/ Plotting_init(None)
    \/ Legacy_Plotting_init
    \/ discard
    \/ \E v \in {"core", "legacy"} : Plot_init(v)
    \/ create_figure
    \/ get_figures
    \/ \E p \in StyleChoices : apply_style(p)
    \/ \E p \in LegacyStyleChoices : set_style(p)
    \/ show_style_preview
    \/ \E f \in FilenameChoices, path \in PathChoices, e \in BOOLEAN, kw \in SaveOverrides :
            save(f, path, e, kw)
    \/ \E f \in FilenameChoices, path \in PathChoices, kw \in SaveOverrides :
            Legacy_save(f, path, kw)

\* the scripts that style and save: one plot area, the 1 x 2 layout of
\* example.py, the largest layout, and a figure of zero width; the fonts
\* directory plays no part
StyleRequests ==
    {CreateArgs(1, 1, 1000, 800, "cm", TRUE),
     CreateArgs(1, 2, 1000, 1000, "cm", TRUE),
     CreateArgs(MaxRows, MaxCols, 1000, 800, "inch", TRUE),
     CreateArgs(1, 1, 0, 800, "cm", TRUE)}

InitStyle ==
    /\ fontDir = MissingDir
    /\ request \in StyleRequests
    /\ ImportState

SpecStyle == InitStyle /\ [][NextStyle]_vars

-----------------------------------------------------------------------------
(* Claims about figure creation (SpecCreate) *)

CreationOps == {"create_figure", "get_figures"}

\* the last operation was a creation call
Creating == call.op \in CreationOps

\* the last operation was a creation call that returned a figure
Created_ok == Creating /\ call.err = NoErr

\* a plot area styled the default way: top and right spines hidden, left and
\* bottom spines visible, 1.4 wide, 5 points outward
DefaultStyled(ax) ==
    /\ ~ax.spines["top"].visible
    /\ ~ax.spines["right"].visible
    /\ \A s \in {"left", "bottom"} :
        /\ ax.spines[s].visible
        /\ ax.spines[s].linewidth = Rat(14, 10)
        /\ ax.spines[s].position = <<"outward", Rat(5, 1)>>

\* C1, as claimed: a creation call with rows <= 0, cols <= 0, width <= 0 or
\* height <= 0 fails with a ValueError and no figure object is created.
C1_InvalidArgumentsRejected ==
    (Creating /\ (call.args.rows <= 0 \/ call.args.cols <= 0
                  \/ call.args.width <= 0 \/ call.args.height <= 0))
        => /\ call.err.type = "ValueError"
           /\ ~call.out.constructed
           /\ plot = NoPlot

\* C2, as claimed: for rows, cols >= 1 a creation call that returns yields a
\* figure with rows*cols plot areas, and its second value is one plot-area
\* handle when rows = cols = 1 and a rows x cols grid otherwise.
C2_GridAsClaimed ==
    (Created_ok /\ call.args.rows >= 1 /\ call.args.cols >= 1)
        => /\ Len(plot.axes) = call.args.rows * call.args.cols
           /\ IF call.args.rows = 1 /\ call.args.cols = 1
              THEN call.out.ret.kind = "axes"
              ELSE /\ call.out.ret.kind = "array"
                   /\ call.out.ret.dims = <<call.args.rows, call.args.cols>>

\* the product of the dimensions of an array
RECURSIVE DimsProduct(_)
DimsProduct(dims) == IF dims = <<>> THEN 1 ELSE Head(dims) * DimsProduct(Tail(dims))

\* C2, amended: for rows, cols >= 1 a creation call that returns yields a
\* figure with rows*cols plot areas; its second value is one plot-area handle
\* when rows = cols = 1, and otherwise an array of the rows*cols plot areas:
\* rows x cols when both exceed 1 (or when create_figure is given
\* squeeze=False), one-dimensional of length rows*cols when one of them is 1.
C2_PlotAreas ==
    (Created_ok /\ call.args.rows >= 1 /\ call.args.cols >= 1)
        => /\ Len(plot.axes) = call.args.rows * call.args.cols
           /\ IF call.args.rows = 1 /\ call.args.cols = 1
              THEN call.out.ret.kind = "axes"
              ELSE /\ call.out.ret.kind = "array"
                   /\ DimsProduct(call.out.ret.dims) = call.args.rows * call.args.cols
                   /\ IF (call.args.rows > 1 /\ call.args.cols > 1)
                         \/ (call.op = "create_figure" /\ ~call.args.squeeze)
                      THEN call.out.ret.dims = <<call.args.rows, call.args.cols>>
                      ELSE call.out.ret.dims = <<call.args.rows * call.args.cols>>

\* C2, witness: a 1 x MaxCols layout was created
C2_Witness ==
    /\ Created_ok
    /\ call.args.rows = 1 /\ call.args.cols = MaxCols
    /\ Len(plot.axes) = MaxCols
    /\ call.out.ret.kind = "array"

\* the fraction r equals h hundredths divided by d hundredths
IsQuotient(r, h, d) == r[2] > 0 /\ r[1] * d = h * r[2]

\* C3: the figsize handed to the engine is (width/2.54, height/2.54) for 'cm'
\* and (width, height) for 'inch'; any other unit is a ValueError raised
\* before a figure is constructed.
C3_UnitConversion ==
    Creating =>
        CASE call.args.unit = "cm" ->
                /\ call.out.handed # None
                /\ IsQuotient(call.out.handed[1], call.args.width, 254)
                /\ IsQuotient(call.out.handed[2], call.args.height, 254)
          [] call.args.unit = "inch" ->
                /\ call.out.handed # None
                /\ IsQuotient(call.out.handed[1], call.args.width, 100)
                /\ IsQuotient(call.out.handed[2], call.args.height, 100)
          [] OTHER ->
                /\ call.err.type = "ValueError"
                /\ ~call.out.constructed
                /\ call.out.handed = None
                /\ plot = NoPlot

\* C3, witness: 2.54 cm by 2.54 cm was handed over as 1 inch by 1 inch
C3_Witness ==
    /\ Created_ok
    /\ call.args.unit = "cm" /\ call.args.width = 254 /\ call.args.height = 254
    /\ call.out.handed = <<Num(1), Num(1)>>
    /\ plot.figsize = <<Num(1), Num(1)>>

\* C4, as claimed: every figure a creation call returns is already styled:
\* the flag is set and every plot area is styled the default way.
C4_CreatedFigureStyled ==
    Created_ok =>
        /\ plot.styleApplied
        /\ \A i \in DOMAIN plot.axes : DefaultStyled(plot.axes[i])

\* C5, as claimed: when a creation call has returned, the engine's
\* interactive mode is off.
C5_InteractiveOff == Created_ok => ~interactive

-----------------------------------------------------------------------------
(* Claims about styling and saving (SpecStyle) *)

\* C8: a step of save with ensure_style=True runs the default style exactly
\* when the flag is not yet set, and the file is only written with the flag
\* set; a step of save with ensure_style=False leaves the figure, its flag
\* included, as it was.
C8_SaveEnsuresStyle ==
    [][ call'.op = "save" =>
          IF call'.args.ensure_style
          THEN /\ IF plot.styleApplied
                  THEN plot' = plot
                  ELSE /\ plot'.styleRuns = plot.styleRuns + 1
                       /\ \A i \in DOMAIN plot'.axes : DefaultStyled(plot'.axes[i])
               /\ call'.out.written => plot'.styleApplied
          ELSE plot' = plot
      ]_vars

\* C8, witness: save(ensure_style=True) on an unstyled figure with plot areas
\* has styled it and written the file
C8_Witness ==
    /\ call.op = "save" /\ call.args.ensure_style
    /\ ~call.out.flagBefore
    /\ call.out.written
    /\ plot.styleApplied /\ plot.styleRuns = call.out.runsBefore + 1
    /\ plot.axes # <<>>

\* what C9 speaks of: per plot area the visibility, position and width of
\* every spine and the major and minor tick parameters
SpineTickState(fig) ==
    [i \in DOMAIN fig.axes |->
        [spines |-> fig.axes[i].spines, major |-> fig.axes[i].major,
         minor |-> fig.axes[i].minor]]

StyleOps == {"apply_style", "set_style"}

\* C9: a second run of the style operation with the parameters of the run
\* just before it leaves the spine and tick state of every plot area as the
\* first run left it.
C9_StyleIdempotent ==
    [][ (call.op \in StyleOps /\ call'.op = call.op /\ call'.args = call.args)
            => SpineTickState(plot') = SpineTickState(plot)
      ]_vars

\* C9, witness: the style operation has run twice in a row with the same
\* non-default parameters on a figure with several plot areas
C9_Witness ==
    /\ call.op = "apply_style" /\ call.out.repeat
    /\ call.args = CustomStyle
    /\ plot.styleRuns = 2
    /\ Len(plot.axes) >= 2

\* the offsets and the width a style call was given
OffsetLeft(c)   == IF c.op = "apply_style" THEN c.args.offset_left ELSE c.args.offleft
OffsetBottom(c) == IF c.op = "apply_style" THEN c.args.offset_bottom ELSE c.args.offbottom
SpineWidth(c)   == IF c.op = "apply_style" THEN c.args.spine_width ELSE c.args.spinewidth

Despined(ax, offL, offB) ==
    /\ ~ax.spines["top"].visible
    /\ ~ax.spines["right"].visible
    /\ ax.spines["left"].position = <<"outward", offL>>
    /\ ax.spines["bottom"].position = <<"outward", offB>>

\* C10, as claimed: after any run of the style operation every plot area has
\* its top and right spines hidden, its left and bottom spines moved outward
\* by the given offsets, and its left and bottom spines of the given width.
C10_StyledAsClaimed ==
    call.op \in StyleOps =>
        \A i \in DOMAIN plot.axes :
            /\ Despined(plot.axes[i], OffsetLeft(call), OffsetBottom(call))
            /\ plot.axes[i].spines["left"].linewidth = SpineWidth(call)
            /\ plot.axes[i].spines["bottom"].linewidth = SpineWidth(call)

\* C10, amended: after a run of the style operation with despine on (the
\* default of apply_style; set_style always despines) every plot area has its
\* top and right spines hidden and its left and bottom spines moved outward
\* by the given offsets; after any run, despine on or off, the left and bottom
\* spines have the given width.
C10_Styled ==
    call.op \in StyleOps =>
        \A i \in DOMAIN plot.axes :
            /\ (call.op = "set_style" \/ call.args.despine)
                  => Despined(plot.axes[i], OffsetLeft(call), OffsetBottom(call))
            /\ plot.axes[i].spines["left"].linewidth = SpineWidth(call)
            /\ plot.axes[i].spines["bottom"].linewidth = SpineWidth(call)

\* C10, witness: apply_style with despine on and offsets 10 and 0 has run on
\* a figure with several plot areas
C10_Witness ==
    /\ call.op = "apply_style" /\ call.args = CustomStyle
    /\ Len(plot.axes) >= 2
    /\ plot.axes[2].spines["left"].position = <<"outward", Num(10)>>
    /\ plot.axes[2].spines["bottom"].position = <<"outward", Num(0)>>
    /\ ~plot.axes[2].spines["top"].visible

-----------------------------------------------------------------------------
(* The global rc-configuration *)

\* a keyword argument left out of the call
Omitted == None

\* (small, medium, big) as callers pass them: left out, the tests' values,
\* and a zero, a negative and a fractional size in each place
SizeChoices ==
    {<<Omitted, Omitted, Omitted>>,
     <<Num(8), Num(10), Num(12)>>,
     <<Num(6), Num(9), Num(14)>>,
     <<Num(0), Num(10), Num(12)>>,
     <<Num(-5), Num(10), Num(12)>>,
     <<Rat(55, 10), Num(10), Num(12)>>,
     <<Num(8), Num(0), Num(12)>>,
     <<Num(8), Num(10), Rat(-25, 10)>>}

FamilyChoices == {Omitted, Str("Arial"), Str("serif")}

\* extra rcParams passed as keywords
RcKwargChoices == {EmptyDict, [k \in {"lines.linewidth"} |-> Num(2)]}

\* what a caller writes into plt.rcParams directly
RcModChoices == {<<"font.size", Num(20)>>, <<"lines.linewidth", Num(3)>>}

\* mpl.rcParams.update(mpl.rcParamsDefault): every key back at its default
ResetRc(current) == RcDefault

\* mpl.rcParams.update() without arguments: nothing changes
LegacyResetRc(current) == current

\* the entries set_rc_params writes (core)
RcParams(fontfamily, small, medium, big, dpi) ==
    [k \in {"font.family", "font.size", "axes.titlesize", "axes.labelsize",
            "xtick.labelsize", "ytick.labelsize", "legend.fontsize",
            "savefig.dpi", "figure.dpi", "pdf.fonttype", "ps.fonttype"} |->
        CASE k = "font.family"     -> fontfamily
          [] k = "font.size"       -> medium
          [] k = "axes.titlesize"  -> big
          [] k = "axes.labelsize"  -> medium
          [] k = "xtick.labelsize" -> small
          [] k = "ytick.labelsize" -> small
          [] k = "legend.fontsize" -> small
          [] k = "savefig.dpi"     -> dpi
          [] k = "figure.dpi"      -> dpi
          [] k = "pdf.fonttype"    -> Num(42)
          [] k = "ps.fonttype"     -> Num(42)]

\* Plotting.set_rc_params(fontfamily, small, medium, big, **kwargs) (core):
\* the rcParams and the font state afterwards
SetRcParams(current, config, fm, packageDir, fontfamily, small, medium, big, kwargs) ==
    LET family == Or(fontfamily, Str(config.default_font))
        sm == Or(small, config.font_sizes.small)
        md == Or(medium, config.font_sizes.medium)
        bg == Or(big, config.font_sizes.big)
        av == IsFontAvailable(fm, family[1], packageDir)
        used == IF av.result THEN family ELSE Str("DejaVu Sans")
    IN  [rc |-> DictUpdate(DictUpdate(ResetRc(current),
                                      RcParams(used, sm, md, bg, config.dpi)), kwargs),
         fm |-> av.fm,
         warned |-> av.fm.warned \/ ~av.result]

\* the entries the plt.rc calls of the legacy set_rc_params write
LegacyRcParams(fontfamily, small, medium, big) ==
    [k \in {"font.family", "font.size", "axes.titlesize", "axes.labelsize",
            "xtick.labelsize", "ytick.labelsize", "legend.fontsize",
            "savefig.dpi", "pdf.fonttype", "ps.fonttype"} |->
        CASE k = "font.family"     -> fontfamily
          [] k = "font.size"       -> medium
          [] k = "axes.titlesize"  -> big
          [] k = "axes.labelsize"  -> medium
          [] k = "xtick.labelsize" -> small
          [] k = "ytick.labelsize" -> small
          [] k = "legend.fontsize" -> small
          [] k = "savefig.dpi"     -> Num(300)
          [] k = "pdf.fonttype"    -> Num(42)
          [] k = "ps.fonttype"     -> Num(42)]

\* a keyword left out takes the default of the signature
Default(x, d) == IF x = Omitted THEN d ELSE x

\* Plotting.set_rc_params(fontfamily=None, small=8, medium=10, big=12) (legacy)
LegacySetRcParams(current, fontfamily, small, medium, big) ==
    DictUpdate(LegacyResetRc(current),
               LegacyRcParams(Default(fontfamily, Str("Arial")), Default(small, Num(8)),
                              Default(medium, Num(10)), Default(big, Num(12))))

RcArgs(fontfamily, sizes, kwargs) ==
    [fontfamily |-> fontfamily, small |-> sizes[1], medium |-> sizes[2], big |-> sizes[3],
     kwargs |-> kwargs]

set_rc_params(fontfamily, sizes, kwargs) ==
    LET r == SetRcParams(rc, plotting.config, FontState, fontDir, fontfamily,
                         sizes[1], sizes[2], sizes[3], kwargs)
    IN  /\ plotting.exists
        /\ rc' = r.rc
        /\ fontsLoaded' = r.fm.loaded
        /\ availableFonts' = r.fm.available
        /\ engineFonts' = r.fm.engine
        /\ warned' = r.warned
        /\ call' = [op |-> "set_rc_params", err |-> NoErr,
                    args |-> RcArgs(fontfamily, sizes, kwargs), out |-> None]
        /\ UNCHANGED <<fontDir, request, userConfig, plotting, legacy, interactive, plot, dirs, files>>

Legacy_set_rc_params(fontfamily, sizes) ==
    /\ legacy
    /\ rc' = LegacySetRcParams(rc, fontfamily, sizes[1], sizes[2], sizes[3])
    /\ warned' = FALSE
    /\ call' = [op |-> "Legacy_set_rc_params", err |-> NoErr,
                args |-> RcArgs(fontfamily, sizes, EmptyDict), out |-> None]
    /\ UNCHANGED <<fontDir, request, userConfig, fontVars, plotting, legacy, interactive, plot, dirs, files>>

\* plt.rcParams[key] = value, by the caller
rc_set(key, value) ==
    /\ rc' = [rc EXCEPT ![key] = value]
    /\ warned' = FALSE
    /\ call' = [op |-> "rc_set", err |-> NoErr, args |-> <<key, value>>, out |-> None]
    /\ UNCHANGED <<fontDir, request, userConfig, fontVars, plotting, legacy, interactive, plot, dirs, files>>

NextRc ==
    \/ \E c \in {None, HIGH_RES_CONFIG} : Plotting_init(c)
    \/ Legacy_Plotting_init
    \/ \E m \in RcModChoices : rc_set(m[1], m[2])
    \/ \E f \in FamilyChoices, z \in SizeChoices, kw \in RcKwargChoices : set_rc_params(f, z, kw)
    \/ \E f \in FamilyChoices, z \in SizeChoices : Legacy_set_rc_params(f, z)

\* the scripts that set the rc-configuration create no figure
InitRc ==
    /\ fontDir \in {MissingDir, FullDir}
    /\ request = CreateArgs(1, 1, 1000, 800, "cm", TRUE)
    /\ ImportState

SpecRc == InitRc /\ [][NextRc]_vars

-----------------------------------------------------------------------------
(* Claims about the rc-configuration (SpecRc) *)

RcOps == {"set_rc_params", "Legacy_set_rc_params"}

PositiveInteger(x) == x[2] = 1 /\ x[1] > 0

\* a size that was passed and is zero, negative or not an integer
InvalidSize(x) == x # Omitted /\ ~PositiveInteger(x)

\* C6, as claimed: set_rc_params given a small, medium or big that is zero,
\* negative or not an integer fails with a ValueError and does not write that
\* size into the rc-configuration.
C6_InvalidSizesRejected ==
    (call.op \in RcOps
        /\ (InvalidSize(call.args.small) \/ InvalidSize(call.args.medium)
            \/ InvalidSize(call.args.big)))
    => /\ call.err.type = "ValueError"
       /\ InvalidSize(call.args.small) => rc["xtick.labelsize"] # call.args.small
       /\ InvalidSize(call.args.medium) => rc["font.size"] # call.args.medium
       /\ InvalidSize(call.args.big) => rc["axes.titlesize"] # call.args.big

\* the sizes and the dpi in force for a call: what was passed, else the
\* configured value (core) or the default of the signature (legacy)
InForce(c, cfg) ==
    IF c.op = "set_rc_params"
    THEN [small |-> Default(c.args.small, cfg.font_sizes.small),
          medium |-> Default(c.args.medium, cfg.font_sizes.medium),
          big |-> Default(c.args.big, cfg.font_sizes.big),
          dpi |-> cfg.dpi]
    ELSE [small |-> Default(c.args.small, Num(8)),
          medium |-> Default(c.args.medium, Num(10)),
          big |-> Default(c.args.big, Num(12)),
          dpi |-> Num(300)]

\* C7, as claimed (with the dpi read as the configured one, 300 by default,
\* and leaving aside font.family and figure.dpi, which the call may set):
\* after set_rc_params with valid sizes the rc-configuration is the engine's
\* defaults overlaid with this call's values only.
C7_ResetToDefaults ==
    (call.op \in RcOps
        /\ ~InvalidSize(call.args.small) /\ ~InvalidSize(call.args.medium)
        /\ ~InvalidSize(call.args.big))
    => LET v == InForce(call, plotting.config)
       IN  \A k \in DOMAIN rc :
            IF k \in DOMAIN call.args.kwargs THEN rc[k] = call.args.kwargs[k]
            ELSE CASE k \in {"font.size", "axes.labelsize"} -> rc[k] = v.medium
                   [] k = "axes.titlesize" -> rc[k] = v.big
                   [] k \in {"xtick.labelsize", "ytick.labelsize", "legend.fontsize"}
                        -> rc[k] = v.small
                   [] k = "savefig.dpi" -> rc[k] = v.dpi
                   [] k \in {"pdf.fonttype", "ps.fonttype"} -> rc[k] = Num(42)
                   [] k \in {"font.family", "figure.dpi"} -> TRUE
                   [] OTHER -> rc[k] = RcDefault[k]

-----------------------------------------------------------------------------
(* Claims about saving and the style flag (SpecStyle) *)

SaveOps == {"save", "Legacy_save"}

\* the default a save is claimed to pass for each of the four parameters
ClaimedSaveDefault(k) ==
    CASE k = "bbox_inches" -> Str("tight")
      [] k = "dpi"         -> Num(300)
      [] k = "facecolor"   -> Str("white")
      [] k = "edgecolor"   -> Str("none")

\* C17: a save never fails because the caller overrides a parameter, and a
\* save that writes passes tight bounding box, 300 dpi, white background and
\* no edge color, each replaced by the caller's override when there is one
C17_SaveParameters ==
    call.op \in SaveOps =>
        /\ call.err.type # "TypeError"
        /\ call.out.written =>
              /\ {"bbox_inches", "dpi", "facecolor", "edgecolor"} \subseteq DOMAIN call.out.params
              /\ \A k \in {"bbox_inches", "dpi", "facecolor", "edgecolor"} :
                    call.out.params[k] = IF k \in DOMAIN call.args.kwargs
                                         THEN call.args.kwargs[k]
                                         ELSE ClaimedSaveDefault(k)

\* C18: the style-applied flag of a figure (of positive size, where the
\* engine's layout pass cannot fail) is true exactly when the style operation
\* has run on the figure since its creation
C18_FlagTracksStyle ==
    (plot.variant = "core" /\ ~Degenerate(plot)) =>
        (plot.styleApplied <=> plot.styleRuns > 0)

-----------------------------------------------------------------------------
(* FontManager operations *)

\* the directories a caller passes to load_fonts
FontDirArgs == {None} \cup {Dir(d) : d \in DirChoices}

FontNameChoices == {"Arial", "DejaVu Sans", "NonexistentFontXYZ", "Fancy", "fancy-regular"}

\* FontManager.load_fonts(font_dir) called by the caller
load_fonts(font_dir) ==
    LET fm == LoadFonts(FontState, font_dir, fontDir)
    IN  /\ fontsLoaded' = fm.loaded
        /\ availableFonts' = fm.available
        /\ engineFonts' = fm.engine
        /\ warned' = fm.warned
        /\ call' = [op |-> "load_fonts", err |-> NoErr, args |-> font_dir,
                    out |-> [loadedBefore |-> fontsLoaded]]
        /\ UNCHANGED <<fontDir, request, userConfig, plotting, legacy, rc, interactive, plot, dirs, files>>

\* FontManager.is_font_available(font_name) called by the caller
is_font_available(font_name) ==
    LET r == IsFontAvailable(FontState, font_name, fontDir)
    IN  /\ fontsLoaded' = r.fm.loaded
        /\ availableFonts' = r.fm.available
        /\ engineFonts' = r.fm.engine
        /\ warned' = r.fm.warned
        /\ call' = [op |-> "is_font_available", err |-> NoErr, args |-> Str(font_name),
                    out |-> [loadedBefore |-> fontsLoaded, result |-> r.result]]
        /\ UNCHANGED <<fontDir, request, userConfig, plotting, legacy, rc, interactive, plot, dirs, files>>

\* FontManager.get_available_fonts(): loads when needed, returns the custom names
get_available_fonts ==
    LET fm == IF ~fontsLoaded THEN LoadFonts(FontState, None, fontDir)
              ELSE [loaded |-> fontsLoaded, available |-> availableFonts,
                    engine |-> engineFonts, warned |-> FALSE]
    IN  /\ fontsLoaded' = fm.loaded
        /\ availableFonts' = fm.available
        /\ engineFonts' = fm.engine
        /\ warned' = fm.warned
        /\ call' = [op |-> "get_available_fonts", err |-> NoErr, args |-> None,
                    out |-> [loadedBefore |-> fontsLoaded, result |-> fm.available]]
        /\ UNCHANGED <<fontDir, request, userConfig, plotting, legacy, rc, interactive, plot, dirs, files>>

NextFonts ==
    \/ Plotting_init(None)
    \/ Legacy_Plotting_init
    \/ \E d \in FontDirArgs : load_fonts(d)
    \/ \E n \in FontNameChoices : is_font_available(n)
    \/ get_available_fonts

InitFonts ==
    /\ fontDir \in DirChoices
    /\ request = CreateArgs(1, 1, 1000, 800, "cm", TRUE)
    /\ ImportState

SpecFonts == InitFonts /\ [][NextFonts]_vars

-----------------------------------------------------------------------------
(* Claims about the fonts (SpecFonts) *)

\* the directory a load_fonts call looked at
LoadedFrom == IF call.args = None THEN fontDir ELSE call.args[1]

\* C11: every load_fonts call returns with the loaded flag set; once the
\* flag is set it stays set, and a load_fonts call made while it is set, with
\* whatever directory, changes neither the registered names nor the fonts
\* registered with the engine
C11_LoadOnce ==
    [][ /\ call'.op = "load_fonts" => fontsLoaded'
        /\ fontsLoaded =>
              /\ fontsLoaded'
              /\ call'.op = "load_fonts" =>
                    /\ availableFonts' = availableFonts
                    /\ engineFonts' = engineFonts ]_vars

\* a second load, from a directory full of fonts, after a first load that
\* found none
C11_Witness ==
    /\ call.op = "load_fonts"
    /\ call.out.loadedBefore
    /\ call.args = Dir(FullDir)
    /\ availableFonts = {}

\* C12: a first load_fonts call never fails and leaves the loaded flag set;
\* an absent or unreadable directory or one without font files gives a
\* warning and registers nothing; a font file that fails to register gives a
\* warning and is not among the available names, while every other font file
\* of the directory is registered
C12_LoadNeverFails ==
    (call.op = "load_fonts" /\ ~call.out.loadedBefore) =>
        /\ call.err = NoErr
        /\ fontsLoaded
        /\ (~LoadedFrom.exists \/ ~LoadedFrom.readable \/ FontFilesIn(LoadedFrom) = {}) =>
              warned /\ availableFonts = {}
        /\ (LoadedFrom.exists /\ LoadedFrom.readable) =>
              \A f \in FontFilesIn(LoadedFrom) :
                  IF f.ok THEN f.stem \in availableFonts /\ f \in engineFonts
                  ELSE warned /\ f.stem \notin availableFonts /\ f \notin engineFonts

\* a load from a directory where one font file fails and two others register
C12_Witness ==
    /\ call.op = "load_fonts"
    /\ ~call.out.loadedBefore
    /\ LoadedFrom = FullDir
    /\ warned
    /\ availableFonts = {"Arial", "fancy-regular"}

\* C13: is_font_available(name) returns without raising and with the fonts
\* loaded (a call made before any load loads the package's directory); the
\* value is true exactly when name is a custom-registered name or a name of
\* the engine's font list
C13_FontAvailable ==
    call.op = "is_font_available" =>
        /\ call.err = NoErr
        /\ fontsLoaded
        /\ call.out.result <=> (\/ call.args[1] \in availableFonts
                                \/ call.args[1] \in TtfListNames(engineFonts))
        /\ ~call.out.loadedBefore =>
              \A f \in FontFilesIn(fontDir) :
                  (fontDir.readable /\ f.ok) => f.stem \in availableFonts

\* a call made before any load, asking for a font that the load it triggers
\* registers
C13_Witness ==
    /\ call.op = "is_font_available"
    /\ call.args = Str("fancy-regular")
    /\ ~call.out.loadedBefore
    /\ call.out.result

-----------------------------------------------------------------------------
(* PlottingConfig operations *)

\* keyword arguments of PlottingConfig(...): none, those of MINIMAL_CONFIG,
\* those of HIGH_RES_CONFIG, and a misspelt field
ConfigKwargChoices ==
    {EmptyDict,
     [font_sizes |-> [small |-> Num(6), medium |-> Num(8), big |-> Num(10)],
      default_width |-> Hundredths(600), default_height |-> Hundredths(450)],
     [dpi |-> Num(600),
      font_sizes |-> [small |-> Num(10), medium |-> Num(12), big |-> Num(14)],
      default_width |-> Hundredths(1500), default_height |-> Hundredths(1200)],
     [font_size |-> Num(9)]}

\* keyword arguments of update, in the order given
UpdateChoices ==
    {<< <<"dpi", Num(600)>> >>,
     << <<"default_font", "Helvetica">>, <<"spine_width", Hundredths(100)>> >>,
     << <<"dpi", Num(150)>>, <<"colour", "red">> >>,
     << <<"colour", "red">>, <<"dpi", Num(150)>> >>,
     << <<"to_dict", Num(1)>> >>,
     << <<"font_sizes", None>> >>}

\* documents handed to from_dict: a partial one and one with a misspelt field
DocumentChoices == {[dpi |-> Num(600)], [font_size |-> Num(9)]}

JournalChoices == {"nature", "Nature", "science", "cell", "CELL", "plos_one", "lancet"}

\* a method of the object can be called unless an instance attribute hides it
Callable(obj, method) == method \notin obj.shadow

\* PlottingConfig(**kwargs): the caller constructs a record and keeps it
PlottingConfig_init(kwargs) ==
    LET r == NewConfig(kwargs)
    IN  /\ userConfig' = IF r.err = NoErr THEN r.obj ELSE userConfig
        /\ warned' = FALSE
        /\ call' = [op |-> "PlottingConfig_init", err |-> r.err, args |-> kwargs, out |-> None]
        /\ UNCHANGED <<fontDir, request, fontVars, plotting, legacy, rc, interactive, plot,
                       dirs, files>>

\* config.update(**kwargs)
update(kwargs) ==
    LET r == IF Callable(userConfig, "update") THEN Update(userConfig, kwargs)
             ELSE [err |-> NotCallableErr, obj |-> userConfig]
    IN  /\ userConfig' = r.obj
        /\ warned' = FALSE
        /\ call' = [op |-> "update", err |-> r.err, args |-> kwargs,
                    out |-> [before |-> userConfig]]
        /\ UNCHANGED <<fontDir, request, fontVars, plotting, legacy, rc, interactive, plot,
                       dirs, files>>

\* config.to_dict()
to_dict ==
    /\ call' = IF Callable(userConfig, "to_dict")
               THEN [op |-> "to_dict", err |-> NoErr, args |-> None,
                     out |-> [result |-> ToDict(userConfig)]]
               ELSE [op |-> "to_dict", err |-> NotCallableErr, args |-> None,
                     out |-> [result |-> EmptyDict]]
    /\ warned' = FALSE
    /\ UNCHANGED <<fontDir, request, userConfig, fontVars, plotting, legacy, rc, interactive,
                   plot, dirs, files>>

\* PlottingConfig.from_dict(config_dict); ofCurrent records that config_dict
\* is what config.to_dict() has just returned
from_dict(config_dict) ==
    LET r == FromDict(config_dict)
    IN  /\ call' = [op |-> "from_dict", err |-> r.err, args |-> config_dict,
                    out |-> [result |-> r.obj,
                             ofCurrent |-> /\ call.op = "to_dict"
                                           /\ call.err = NoErr
                                           /\ config_dict = call.out.result]]
        /\ warned' = FALSE
        /\ UNCHANGED <<fontDir, request, userConfig, fontVars, plotting, legacy, rc,
                       interactive, plot, dirs, files>>

\* config.get_journal_preset(journal): to_dict is called once the name is found
get_journal_preset(journal) ==
    LET r == IF ~Callable(userConfig, "get_journal_preset")
             THEN [err |-> NotCallableErr, obj |-> NoConfig]
             ELSE IF JournalLower(journal) \in DOMAIN Presets /\ ~Callable(userConfig, "to_dict")
             THEN [err |-> NotCallableErr, obj |-> NoConfig]
             ELSE GetJournalPreset(userConfig, journal)
    IN  /\ call' = [op |-> "get_journal_preset", err |-> r.err, args |-> Str(journal),
                    out |-> [before |-> userConfig, result |-> r.obj]]
        /\ warned' = FALSE
        /\ UNCHANGED <<fontDir, request, userConfig, fontVars, plotting, legacy, rc,
                       interactive, plot, dirs, files>>

NextConfig ==
    \/ \E kw \in ConfigKwargChoices : PlottingConfig_init(kw)
    \/ \E kw \in UpdateChoices : update(kw)
    \/ to_dict
    \/ \E d \in DocumentChoices : from_dict(d)
    \/ (call.op = "to_dict" /\ call.err = NoErr /\ from_dict(call.out.result))
    \/ \E j \in JournalChoices : get_journal_preset(j)

InitConfig ==
    /\ fontDir = MissingDir
    /\ request = CreateArgs(1, 1, 1000, 800, "cm", TRUE)
    /\ ImportState

SpecConfig == InitConfig /\ [][NextConfig]_vars

-----------------------------------------------------------------------------
(* Claims about the configuration record (SpecConfig) *)

\* the keys of an update call
UpdateKeys == {call.args[i][1] : i \in DOMAIN call.args}

\* C14: update applies its keys when all of them are configuration fields,
\* and fails with the unknown-parameter ValueError when one of them is
\* anything else, a method name included
C14_UpdateRejectsUnknown ==
    call.op = "update" =>
        IF UpdateKeys \subseteq Fields
        THEN /\ call.err = NoErr
             /\ \A i \in DOMAIN call.args : userConfig.attrs[call.args[i][1]] = call.args[i][2]
        ELSE call.err = UnknownParameter

\* a valid record: its font-size scale is a mapping
ValidConfig(obj) == obj.attrs.font_sizes # None

\* C15: on a record whose methods are its class's, get_journal_preset(name)
\* leaves the record as it was; for a name of the preset table (in any
\* letter case) it returns a record that has the preset's value in every
\* field the preset names and the current record's value in every other
\* field, 'nature' giving the font sizes 7, 8, 9; for any other name it fails
\* with the unknown-preset ValueError and returns nothing
C15_Preset ==
    (call.op = "get_journal_preset" /\ call.out.before.shadow = {}) =>
        /\ userConfig = call.out.before
        /\ IF JournalLower(call.args[1]) \in {"nature", "science", "cell", "plos_one"}
           THEN /\ call.err = NoErr
                /\ \A f \in Fields :
                      call.out.result.attrs[f] =
                          IF f \in DOMAIN Presets[JournalLower(call.args[1])]
                          THEN Presets[JournalLower(call.args[1])][f]
                          ELSE userConfig.attrs[f]
                /\ JournalLower(call.args[1]) = "nature" =>
                      call.out.result.attrs.font_sizes =
                          [small |-> Num(7), medium |-> Num(8), big |-> Num(9)]
           ELSE /\ call.err = UnknownPreset
                /\ call.out.result = NoConfig

\* the nature preset of a record with 600 dpi: the sizes are the preset's, the
\* dpi is the record's
C15_Witness ==
    /\ call.op = "get_journal_preset"
    /\ call.args = Str("nature")
    /\ call.err = NoErr
    /\ userConfig.attrs.dpi = Num(600)
    /\ call.out.result.attrs.dpi = Num(600)
    /\ call.out.result.attrs.font_sizes # userConfig.attrs.font_sizes

\* C16: from_dict of what to_dict has just returned for a valid record
\* succeeds and agrees with the record on every one of the eleven fields
C16_RoundTrip ==
    (call.op = "from_dict" /\ call.out.ofCurrent /\ ValidConfig(userConfig)) =>
        /\ call.err = NoErr
        /\ DOMAIN call.args = Fields
        /\ Cardinality(Fields) = 11
        /\ \A f \in Fields : call.out.result.attrs[f] = userConfig.attrs[f]

\* a round trip of a record that differs from the defaults
C16_Witness ==
    /\ call.op = "from_dict"
    /\ call.out.ofCurrent
    /\ ValidConfig(userConfig)
    /\ userConfig.attrs.dpi = Num(600)
    /\ userConfig.attrs.default_font = "Helvetica"

\* C19: an update call that fails on an unknown key leaves every field as it
\* was before the call
C19_UpdateAllOrNothing ==
    (call.op = "update" /\ call.err = UnknownParameter) =>
        userConfig.attrs = call.out.before.attrs

-----------------------------------------------------------------------------
(* The whole program *)

\* every operation, from every import-time state
Next == NextCreate \/ NextStyle \/ NextRc \/ NextFonts \/ NextConfig

Spec == Init /\ [][Next]_vars

====
